---- MODULE Spec2Model ----
(***************************************************************************)
(* A model of the CSS3 scanner of package scanner (speedata/css).          *)
(*                                                                         *)
(* Go strings are modelled as sequences of bytes (integers 0..255).  The   *)
(* regular expressions of the production table are modelled by operators   *)
(* that return, for a byte sequence b and a start index i, the sequence    *)
(* of all end indices (index of the byte after the match) in the priority  *)
(* order in which Go's leftmost-first regexp engine prefers them; the      *)
(* head of that sequence is the match FindString reports.                  *)
(***************************************************************************)
EXTENDS Integers, Sequences, FiniteSets, TLC

\* ------------------------------------------------------------------ bytes
TAB == 9
LF == 10
FF == 12
CR == 13
SPACE == 32
BANG == 33
DQUOTE == 34
HASHCH == 35
PERCENT == 37
SQUOTE == 39
LPAREN == 40
RPAREN == 41
STAR == 42
PLUS == 43
DASH == 45
DOT == 46
SLASH == 47
LT == 60
EQUALS == 61
GT == 62
QMARK == 63
ATSIGN == 64
BACKSLASH == 92
UNDERSCORE == 95
DOLLAR == 36
CARET == 94
BAR == 124
TILDE == 126
RuneError == 65533
MaxRune == 1114111

\* the byte of b at index i, or -1 past the end
At(b, i) == IF i >= 1 /\ i <= Len(b) THEN b[i] ELSE -1

\* s[from:] for a 0-based byte offset
SliceFrom(b, off) == SubSeq(b, off + 1, Len(b))

\* strings.HasPrefix
HasPrefix(b, p) == Len(b) >= Len(p) /\ SubSeq(b, 1, Len(p)) = p

\* the concatenation f(1) \o ... \o f(n) of the sequences F(ends[k])
FlatMap(ends, F(_)) ==
  LET f[k \in 0..Len(ends)] == IF k = 0 THEN <<>> ELSE f[k - 1] \o F(ends[k])
  IN f[Len(ends)]

\* ------------------------------------------------------------------ UTF-8
IsCont(c) == c >= 128 /\ c <= 191

\* utf8.DecodeRune on b[i..]: the rune and its width in bytes; an invalid
\* or truncated encoding is RuneError of width 1, the empty input width 0.
DecodeRune(b, i) ==
  LET c0 == At(b, i)
      c1 == At(b, i + 1)
      c2 == At(b, i + 2)
      c3 == At(b, i + 3)
      bad == [r |-> RuneError, size |-> 1]
  IN IF c0 = -1 THEN [r |-> RuneError, size |-> 0]
     ELSE IF c0 < 128 THEN [r |-> c0, size |-> 1]
     ELSE IF c0 >= 194 /\ c0 <= 223
       THEN IF IsCont(c1) THEN [r |-> (c0 - 192) * 64 + (c1 - 128), size |-> 2]
            ELSE bad
     ELSE IF c0 >= 224 /\ c0 <= 239
       THEN IF /\ c1 >= (IF c0 = 224 THEN 160 ELSE 128)
               /\ c1 <= (IF c0 = 237 THEN 159 ELSE 191)
               /\ IsCont(c2)
            THEN [r |-> (c0 - 224) * 4096 + (c1 - 128) * 64 + (c2 - 128), size |-> 3]
            ELSE bad
     ELSE IF c0 >= 240 /\ c0 <= 244
       THEN IF /\ c1 >= (IF c0 = 240 THEN 144 ELSE 128)
               /\ c1 <= (IF c0 = 244 THEN 143 ELSE 191)
               /\ IsCont(c2) /\ IsCont(c3)
            THEN [r |-> (c0 - 240) * 262144 + (c1 - 128) * 4096
                        + (c2 - 128) * 64 + (c3 - 128), size |-> 4]
            ELSE bad
     ELSE bad

\* utf8.EncodeRune, as bytes.Buffer.WriteRune and string(rune) apply it:
\* a surrogate or out-of-range rune is written as U+FFFD.
EncodeRune(r) ==
  LET v == IF r < 0 \/ r > MaxRune \/ (r >= 55296 /\ r <= 57343) THEN RuneError ELSE r
  IN IF v < 128 THEN <<v>>
     ELSE IF v < 2048 THEN <<192 + (v \div 64), 128 + (v % 64)>>
     ELSE IF v < 65536
       THEN <<224 + (v \div 4096), 128 + ((v \div 64) % 64), 128 + (v % 64)>>
     ELSE <<240 + (v \div 262144), 128 + ((v \div 4096) % 64),
            128 + ((v \div 64) % 64), 128 + (v % 64)>>

\* utf8.RuneCountInString
RECURSIVE RuneCountFrom(_, _)
RuneCountFrom(b, i) ==
  IF i > Len(b) THEN 0 ELSE 1 + RuneCountFrom(b, i + DecodeRune(b, i).size)

RuneCount(b) == RuneCountFrom(b, 1)

\* strings.Count(text, "\n")
RECURSIVE CountLF(_)
CountLF(b) ==
  IF b = <<>> THEN 0 ELSE (IF Head(b) = LF THEN 1 ELSE 0) + CountLF(Tail(b))

\* strings.LastIndex(text, "\n") as a 1-based index, 0 when absent
RECURSIVE LastLF(_)
LastLF(b) ==
  IF b = <<>> THEN 0
  ELSE IF b[Len(b)] = LF THEN Len(b)
  ELSE LastLF(SubSeq(b, 1, Len(b) - 1))

\* ------------------------------------------------- regexp building blocks
\* hi, hi-1, ..., lo: the ends a greedy repetition of a one-byte class offers
Desc(hi, lo) == [k \in 1..(hi - lo + 1) |-> hi - k + 1]

\* a character class at i: the end after one rune of the class
Cls(b, i, In(_)) ==
  LET d == DecodeRune(b, i)
  IN IF d.size > 0 /\ In(d.r) THEN <<i + d.size>> ELSE <<>>

\* a literal byte at i
Lit(b, i, c) == IF At(b, i) = c THEN <<i + 1>> ELSE <<>>

\* a literal byte sequence at i
LitSeq(b, i, p) ==
  IF i + Len(p) - 1 <= Len(b) /\ SubSeq(b, i, i + Len(p) - 1) = p
  THEN <<i + Len(p)>> ELSE <<>>

\* greedy X*: every continuation after one X, in X's order, then the empty match
Star(b, i, X(_, _)) ==
  LET f[j \in i..(Len(b) + 1)] == FlatMap(X(b, j), LAMBDA e : f[e]) \o <<j>>
  IN f[i]

\* greedy X+
Plus(b, i, X(_, _)) == FlatMap(X(b, i), LAMBDA e : Star(b, e, X))

\* the number of consecutive bytes of a one-byte class from i, at most max
ByteRun(b, i, In(_), max) ==
  LET f[k \in 0..max] ==
        IF k < max /\ At(b, i + k) # -1 /\ In(At(b, i + k)) THEN f[k + 1] ELSE k
  IN f[0]

\* greedy [class]{1,max} of a one-byte class
Rep1(b, i, In(_), max) == Desc(i + ByteRun(b, i, In, max), i + 1)

IsDigit(c) == c >= 48 /\ c <= 57
IsLower(c) == c >= 97 /\ c <= 122
IsUpper(c) == c >= 65 /\ c <= 90

\* --------------------------------------------------------------- macros
\* "nonascii": [U+0080-U+D7FF U+E000-U+FFFD U+10000-U+10FFFF]
IsNonascii(r) ==
  \/ r >= 128 /\ r <= 55295
  \/ r >= 57344 /\ r <= 65533
  \/ r >= 65536 /\ r <= MaxRune

nonascii(b, i) == Cls(b, i, IsNonascii)

\* "wc": [\t\n\f\r ]
IsWc(c) == c \in {TAB, LF, FF, CR, SPACE}

wc(b, i) == Cls(b, i, IsWc)

\* "w": {wc}*
w(b, i) == Star(b, i, wc)

\* [0-9a-fA-F]
IsHexClass(c) == IsDigit(c) \/ (c >= 97 /\ c <= 102) \/ (c >= 65 /\ c <= 70)

\* "unicode": \\[0-9a-fA-F]{1,6}{wc}?
unicode(b, i) ==
  FlatMap(Lit(b, i, BACKSLASH), LAMBDA d :
    FlatMap(Rep1(b, d, IsHexClass, 6), LAMBDA e : wc(b, e) \o <<e>>))

\* "escape": {unicode}|\\[U+0020-U+007E U+0080-U+D7FF U+E000-U+FFFD U+10000-U+10FFFF]
IsEscapeClass(r) == (r >= 32 /\ r <= 126) \/ IsNonascii(r)

escape(b, i) ==
  unicode(b, i)
  \o FlatMap(Lit(b, i, BACKSLASH), LAMBDA d : Cls(b, d, IsEscapeClass))

\* "nmstart": [a-zA-Z_]|{nonascii}|{escape}
IsNmstartClass(c) == IsLower(c) \/ IsUpper(c) \/ c = UNDERSCORE

nmstart(b, i) == Cls(b, i, IsNmstartClass) \o nonascii(b, i) \o escape(b, i)

\* "nmchar": [a-zA-Z0-9_-]|{nonascii}|{escape}
\* a variant of the nmchar class: [a-zA-Z0-9_], without the dash
IsNmcharNoDash(c) == IsLower(c) \/ IsUpper(c) \/ IsDigit(c) \/ c = UNDERSCORE

IsNmcharClass(c) == IsLower(c) \/ IsUpper(c) \/ IsDigit(c) \/ c = UNDERSCORE \/ c = DASH

nmchar(b, i) == Cls(b, i, IsNmcharClass) \o nonascii(b, i) \o escape(b, i)

\* "ident": -?{nmstart}{nmchar}*
ident(b, i) ==
  FlatMap(Lit(b, i, DASH) \o <<i>>, LAMBDA d :
    FlatMap(nmstart(b, d), LAMBDA e : Star(b, e, nmchar)))

\* "name": {nmchar}+
name(b, i) == Plus(b, i, nmchar)

\* "num": [0-9]*\.[0-9]+|[0-9]+
num(b, i) ==
  FlatMap(Desc(i + ByteRun(b, i, IsDigit, Len(b)), i), LAMBDA d :
    FlatMap(Lit(b, d, DOT), LAMBDA e : Rep1(b, e, IsDigit, Len(b))))
  \o Rep1(b, i, IsDigit, Len(b))

\* "nl": [\n\r\f]|\r\n
IsNlClass(c) == c \in {LF, CR, FF}

nl(b, i) == Cls(b, i, IsNlClass) \o LitSeq(b, i, <<CR, LF>>)

\* "urlchar": [\u0009!#-&'-~]|{nonascii}|{escape}
IsUrlcharClass(c) ==
  c = TAB \/ c = BANG \/ (c >= 35 /\ c <= 38) \/ (c >= 39 /\ c <= 126)

urlchar(b, i) == Cls(b, i, IsUrlcharClass) \o nonascii(b, i) \o escape(b, i)

\* "stringchar": {urlchar}|[ ]|\\{nl}
stringchar(b, i) ==
  urlchar(b, i) \o Lit(b, i, SPACE)
  \o FlatMap(Lit(b, i, BACKSLASH), LAMBDA d : nl(b, d))

\* (?:{stringchar}|') and (?:{stringchar}|")
stringcharOrSQ(b, i) == stringchar(b, i) \o Lit(b, i, SQUOTE)

stringcharOrDQ(b, i) == stringchar(b, i) \o Lit(b, i, DQUOTE)

\* "string": "(?:{stringchar}|')*"|'(?:{stringchar}|")*'
string(b, i) ==
  FlatMap(Lit(b, i, DQUOTE), LAMBDA d :
    FlatMap(Star(b, d, stringcharOrSQ), LAMBDA e : Lit(b, e, DQUOTE)))
  \o FlatMap(Lit(b, i, SQUOTE), LAMBDA d :
       FlatMap(Star(b, d, stringcharOrDQ), LAMBDA e : Lit(b, e, SQUOTE)))

\* ---------------------------------------------------------- productions
\* [Uu][Rr][Ll]\(
urlOpen(b, i) ==
  FlatMap(Cls(b, i, LAMBDA c : c \in {85, 117}), LAMBDA d :
    FlatMap(Cls(b, d, LAMBDA c : c \in {82, 114}), LAMBDA e :
      FlatMap(Cls(b, e, LAMBDA c : c \in {76, 108}), LAMBDA g : Lit(b, g, LPAREN))))

\* URI: [Uu][Rr][Ll]\({w}(?:{string}|{urlchar}*){w}\)
uriP(b, i) ==
  FlatMap(urlOpen(b, i), LAMBDA d :
    FlatMap(w(b, d), LAMBDA e :
      FlatMap(string(b, e) \o Star(b, e, urlchar), LAMBDA g :
        FlatMap(w(b, g), LAMBDA h : Lit(b, h, RPAREN)))))

\* UnicodeRange: [Uu]\+[0-9A-F\?]{1,6}(?:-[0-9A-F]{1,6})?
IsRangeHex(c) == IsDigit(c) \/ (c >= 65 /\ c <= 70)

IsRangeHexQ(c) == IsRangeHex(c) \/ c = QMARK

unicodeRangeP(b, i) ==
  FlatMap(Cls(b, i, LAMBDA c : c \in {85, 117}), LAMBDA d :
    FlatMap(Lit(b, d, PLUS), LAMBDA e :
      FlatMap(Rep1(b, e, IsRangeHexQ, 6), LAMBDA g :
        FlatMap(Lit(b, g, DASH), LAMBDA h : Rep1(b, h, IsRangeHex, 6)) \o <<g>>)))

\* Comment: /\*[^\*]*[\*]+(?:[^/][^\*]*[\*]+)*/
notStar(b, i) == Cls(b, i, LAMBDA r : r # STAR)

isStar(b, i) == Lit(b, i, STAR)

commentMore(b, i) ==
  FlatMap(Cls(b, i, LAMBDA r : r # SLASH), LAMBDA d :
    FlatMap(Star(b, d, notStar), LAMBDA e : Plus(b, e, isStar)))

commentP(b, i) ==
  FlatMap(LitSeq(b, i, <<SLASH, STAR>>), LAMBDA d :
    FlatMap(Star(b, d, notStar), LAMBDA e :
      FlatMap(Plus(b, e, isStar), LAMBDA g :
        FlatMap(Star(b, g, commentMore), LAMBDA h : Lit(b, h, SLASH)))))

\* the productions table: the ends the anchored regexp ^(?:...) offers at the
\* start of b, best first
identP(b) == ident(b, 1)
atKeywordP(b) == FlatMap(Lit(b, 1, ATSIGN), LAMBDA d : ident(b, d))
stringP(b) == string(b, 1)
hashP(b) == FlatMap(Lit(b, 1, HASHCH), LAMBDA d : name(b, d))
numberP(b) == num(b, 1)
percentageP(b) == FlatMap(num(b, 1), LAMBDA d : Lit(b, d, PERCENT))
dimensionP(b) == FlatMap(num(b, 1), LAMBDA d : ident(b, d))
cdcP(b) == LitSeq(b, 1, <<DASH, DASH, GT>>)
sP(b) == Plus(b, 1, wc)
functionP(b) == FlatMap(ident(b, 1), LAMBDA d : Lit(b, d, LPAREN))

\* FindString: the text of the preferred match, "" when there is none
matchText(b, ends) == IF ends = <<>> THEN <<>> ELSE SubSeq(b, 1, ends[1] - 1)

\* a variant of matchOrder: Number is tried before Dimension and Percentage
matchOrderNumberFirst(b) ==
  << [type |-> "URI", match |-> matchText(b, uriP(b, 1))],
     [type |-> "Function", match |-> matchText(b, functionP(b))],
     [type |-> "UnicodeRange", match |-> matchText(b, unicodeRangeP(b, 1))],
     [type |-> "Ident", match |-> matchText(b, identP(b))],
     [type |-> "Number", match |-> matchText(b, numberP(b))],
     [type |-> "Dimension", match |-> matchText(b, dimensionP(b))],
     [type |-> "Percentage", match |-> matchText(b, percentageP(b))],
     [type |-> "CDC", match |-> matchText(b, cdcP(b))] >>

\* matchOrder, each entry with the result of matchers[entry].FindString(b)
matchOrder(b) ==
  << [type |-> "URI", match |-> matchText(b, uriP(b, 1))],
     [type |-> "Function", match |-> matchText(b, functionP(b))],
     [type |-> "UnicodeRange", match |-> matchText(b, unicodeRangeP(b, 1))],
     [type |-> "Ident", match |-> matchText(b, identP(b))],
     [type |-> "Dimension", match |-> matchText(b, dimensionP(b))],
     [type |-> "Percentage", match |-> matchText(b, percentageP(b))],
     [type |-> "Number", match |-> matchText(b, numberP(b))],
     [type |-> "CDC", match |-> matchText(b, cdcP(b))] >>

\* ------------------------------------------------------------- tokens
Types ==
  {"Error", "EOF", "Ident", "AtKeyword", "String", "Hash", "Number",
   "Percentage", "Dimension", "URI", "UnicodeRange", "CDO", "CDC", "S",
   "Comment", "Function", "Includes", "DashMatch", "PrefixMatch",
   "SuffixMatch", "SubstringMatch", "Delim", "BOM"}

\* &Token{t, v, line, column}
Token(t, v, line, column) == [Type |-> t, Value |-> v, Line |-> line, Column |-> column]

\* the nil *Token
NoToken == Token("nil", <<>>, 0, 0)

\* ---------------------------------------------------------- unbackslash
isWhitespace(c) == c = SPACE \/ c = TAB \/ c = CR \/ c = LF \/ c = FF

isHexChar(c) ==
  (c >= 48 /\ c <= 57) \/ (c >= 97 /\ c <= 102) \/ (c >= 65 /\ c <= 70)

fromHexChar(c) ==
  IF 48 <= c /\ c <= 57 THEN c - 48
  ELSE IF 97 <= c /\ c <= 102 THEN c - 97 + 10
  ELSE IF 65 <= c /\ c <= 70 THEN c - 65 + 10
  ELSE 0

\* a variant of decodeHex: the shift is applied after the digit is added
decodeHexShiftAfter(in) ==
  LET f[k \in 0..Len(in)] ==
        IF k = 0 THEN 0 ELSE (f[k - 1] + fromHexChar(in[k])) * 16
  IN f[Len(in)]

\* val = val<<4 + digit over the collected digits (at most six, so the
\* value stays below 2^24 and the 32 bits of a rune never wrap)
decodeHex(in) ==
  LET f[k \in 0..Len(in)] ==
        IF k = 0 THEN 0 ELSE f[k - 1] * 16 + fromHexChar(in[k])
  IN f[Len(in)]

\* HEXLOOP: the number of hex digits collected, the first being at index i
hexDigits(s, i) == 1 + ByteRun(s, i + 1, isHexChar, 5)

\* a variant of afterHex: white space is taken after six digits too
afterHexAnyLength(s, i, n) ==
  IF At(s, i + n) # -1 /\ isWhitespace(At(s, i + n)) THEN i + n + 1 ELSE i + n

\* HEXLOOP: the index of the next byte to read once the loop is left, given
\* that n digits were collected from index i on: a whitespace byte that ends a
\* run of fewer than six digits has been read and is not given back
afterHex(s, i, n) ==
  IF n < 6 /\ At(s, i + n) # -1 /\ isWhitespace(At(s, i + n)) THEN i + n + 1 ELSE i + n

\* the branch taken when a backslash is followed by CR in a string and no
\* byte follows the CR: the backslash is written and the loop is left
crAtEnd(out) == Append(out, BACKSLASH)

\* the main loop of unbackslash from index i with the output so far
RECURSIVE unbackslashLoop(_, _, _, _)
unbackslashLoop(s, i, out, isString) ==
  IF i > Len(s) THEN out
  ELSE IF s[i] # BACKSLASH THEN unbackslashLoop(s, i + 1, Append(out, s[i]), isString)
  ELSE IF i + 1 > Len(s) THEN Append(out, BACKSLASH)
  ELSE LET c == s[i + 1] IN
    IF isString /\ c = LF THEN unbackslashLoop(s, i + 2, out, isString)
    ELSE IF isString /\ c = CR
      THEN IF i + 2 > Len(s) THEN crAtEnd(out)
           ELSE IF s[i + 2] = LF THEN unbackslashLoop(s, i + 3, out, isString)
           ELSE unbackslashLoop(s, i + 2, out, isString)
    ELSE IF isHexChar(c)
      THEN LET n == hexDigits(s, i + 1)
               r == decodeHex(SubSeq(s, i + 1, i + n))
           IN unbackslashLoop(s, afterHex(s, i + 1, n), out \o EncodeRune(r), isString)
    ELSE unbackslashLoop(s, i + 2, Append(out, c), isString)

unbackslash(s, isString) ==
  IF \A k \in 1..Len(s) : s[k] # BACKSLASH THEN s
  ELSE unbackslashLoop(s, 1, <<>>, isString)

\* ------------------------------------------------------------ normalize
\* strings.TrimSpace on ASCII white space (\t \n \v \f \r space)
IsSpaceByte(c) == c \in {TAB, LF, 11, FF, CR, SPACE}

RECURSIVE TrimLeft(_)
TrimLeft(b) == IF b # <<>> /\ IsSpaceByte(Head(b)) THEN TrimLeft(Tail(b)) ELSE b

RECURSIVE TrimRight(_)
TrimRight(b) ==
  IF b # <<>> /\ IsSpaceByte(b[Len(b)]) THEN TrimRight(SubSeq(b, 1, Len(b) - 1)) ELSE b

TrimSpace(b) == TrimRight(TrimLeft(b))

\* v[lo:hi] with Go's 0-based half-open bounds
Slice(v, lo, hi) == SubSeq(v, lo + 1, hi)

\* a slice expression v[lo:hi] panics unless 0 <= lo <= hi <= len(v)
SliceOK(v, lo, hi) == 0 <= lo /\ lo <= hi /\ hi <= Len(v)

\* the URI case of normalize: the trimmed interior
uriTrimmed(v) == TrimSpace(Slice(v, 4, Len(v) - 1))

\* whether normalize runs into a slice-bounds panic on this token
normalizePanics(t) ==
  LET v == t.Value
      n == Len(v)
  IN CASE t.Type \in {"AtKeyword", "Hash"} -> ~SliceOK(v, 1, n)
       [] t.Type = "String" -> ~SliceOK(v, 1, n - 1)
       [] t.Type \in {"Percentage", "Function"} -> ~SliceOK(v, 0, n - 1)
       [] t.Type = "Comment" -> ~SliceOK(v, 2, n - 2)
       [] t.Type = "URI" ->
            \/ ~SliceOK(v, 4, n - 1)
            \/ LET tr == uriTrimmed(v)
                   last == Len(tr) - 1
               IN /\ tr # <<>>
                  /\ \/ tr[1] = SQUOTE /\ tr[last + 1] = SQUOTE
                     \/ tr[1] = DQUOTE /\ tr[last + 1] = DQUOTE
                  /\ ~SliceOK(tr, 1, last)
       [] OTHER -> FALSE

\* the value normalize leaves in the token (when it does not panic)
normalizeValue(t) ==
  LET v == t.Value
      n == Len(v)
  IN CASE t.Type = "Ident" -> unbackslash(v, FALSE)
       [] t.Type = "AtKeyword" -> unbackslash(Slice(v, 1, n), FALSE)
       [] t.Type = "String" -> unbackslash(Slice(v, 1, n - 1), TRUE)
       [] t.Type = "Hash" -> unbackslash(Slice(v, 1, n), FALSE)
       [] t.Type = "Percentage" -> Slice(v, 0, n - 1)
       [] t.Type = "Dimension" -> unbackslash(v, FALSE)
       [] t.Type \in {"CDO", "CDC"} -> <<>>
       [] t.Type = "URI" ->
            LET tr == uriTrimmed(v)
                last == Len(tr) - 1
            IN IF tr = <<>> THEN <<>>
               ELSE IF tr[1] = SQUOTE /\ tr[last + 1] = SQUOTE
                 THEN unbackslash(Slice(tr, 1, last), FALSE)
               ELSE IF tr[1] = DQUOTE /\ tr[last + 1] = DQUOTE
                 THEN unbackslash(Slice(tr, 1, last), FALSE)
               ELSE unbackslash(tr, FALSE)
       [] t.Type = "Comment" -> Slice(v, 2, n - 2)
       [] t.Type = "Function" -> unbackslash(Slice(v, 0, n - 1), FALSE)
       [] t.Type \in {"Includes", "DashMatch", "PrefixMatch", "SuffixMatch",
                      "SubstringMatch"} -> <<>>
       [] OTHER -> v

normalize(t) == [t EXCEPT !.Value = normalizeValue(t)]

\* ----------------------------------------------------------------- Emit
\* backslashifyString: one rune at a time
backslashifyString(s) ==
  LET f[i \in 1..(Len(s) + 1)] ==
        IF i > Len(s) THEN <<>>
        ELSE LET d == DecodeRune(s, i)
                 e == EncodeRune(d.r)
             IN (IF d.r = DQUOTE THEN <<BACKSLASH>> \o e
                 ELSE IF d.r >= HASHCH THEN e
                 ELSE IF d.r = TAB \/ d.r = BANG THEN e
                 ELSE <<BACKSLASH>> \o e) \o f[i + d.size]
  IN f[1]

\* backslashifyIdent: one rune at a time
backslashifyIdent(s) ==
  LET f[i \in 1..(Len(s) + 1)] ==
        IF i > Len(s) THEN <<>>
        ELSE LET d == DecodeRune(s, i)
                 e == EncodeRune(d.r)
             IN (IF /\ ~(d.r >= 97 /\ d.r <= 122)
                    /\ ~(d.r >= 65 /\ d.r <= 90)
                    /\ d.r # UNDERSCORE /\ d.r # DASH
                    /\ d.r <= 255
                 THEN <<BACKSLASH>> \o e
                 ELSE e) \o f[i + d.size]
  IN f[1]

\* the strings Emit hands to wr for a token of an emittable category
emitStrs(t) ==
  CASE t.Type = "Ident" -> <<backslashifyIdent(t.Value)>>
    [] t.Type = "AtKeyword" -> <<(<<ATSIGN>>), backslashifyIdent(t.Value)>>
    [] t.Type = "String" -> <<(<<DQUOTE>>), backslashifyString(t.Value), (<<DQUOTE>>)>>
    [] t.Type = "Hash" -> <<(<<HASHCH>>), backslashifyIdent(t.Value)>>
    [] t.Type = "Number" -> <<t.Value>>
    [] t.Type = "Percentage" -> <<t.Value, (<<PERCENT>>)>>
    [] t.Type = "Dimension" -> <<t.Value>>
    [] t.Type = "URI" ->
         <<(<<117, 114, 108, LPAREN, SQUOTE>>), backslashifyString(t.Value),
           (<<SQUOTE, RPAREN>>)>>
    [] t.Type = "UnicodeRange" -> <<t.Value>>
    [] t.Type = "CDO" -> <<(<<LT, BANG, DASH, DASH>>)>>
    [] t.Type = "CDC" -> <<(<<DASH, DASH, GT>>)>>
    [] t.Type = "S" -> <<t.Value>>
    [] t.Type = "Comment" -> <<(<<SLASH, STAR>>), t.Value, (<<STAR, SLASH>>)>>
    [] t.Type = "Function" -> <<backslashifyIdent(t.Value), (<<LPAREN>>)>>
    [] t.Type = "Includes" -> <<(<<126, EQUALS>>)>>
    [] t.Type = "DashMatch" -> <<(<<124, EQUALS>>)>>
    [] t.Type = "PrefixMatch" -> <<(<<94, EQUALS>>)>>
    [] t.Type = "SuffixMatch" -> <<(<<36, EQUALS>>)>>
    [] t.Type = "SubstringMatch" -> <<(<<STAR, EQUALS>>)>>
    [] t.Type = "Delim" -> <<t.Value>>
    [] t.Type = "BOM" -> <<EncodeRune(65279)>>
    [] OTHER -> <<>>

\* a variant of wr: the loop goes on after a failed Write and the result of
\* the last Write is returned
wrNoStop(sink, strs) ==
  LET f[k \in 0..Len(strs)] ==
        IF k = 0 THEN [sink |-> sink, err |-> [kind |-> "nil", at |-> 0]]
        ELSE LET sk == f[k - 1].sink IN
          IF sk.calls + 1 = sk.failAt
          THEN [sink |-> [sk EXCEPT !.calls = @ + 1],
                err |-> [kind |-> "sink failure", at |-> sk.calls + 1]]
          ELSE [sink |-> [sk EXCEPT !.calls = @ + 1, !.written = Append(@, strs[k])],
                err |-> [kind |-> "nil", at |-> 0]]
  IN f[Len(strs)]

\* An io.Writer is modelled by the strings it has accepted, the number of
\* Write calls made on it, and the call (failAt, 0 for none) that fails.
\* An error value is its message (kind) and, for a failure of the sink, the
\* Write call that produced it (at).
\* wr: write the strings in order, stopping at the first failed Write.
wr(sink, strs) ==
  LET f[k \in 0..Len(strs)] ==
        IF k = 0 THEN [sink |-> sink, err |-> [kind |-> "nil", at |-> 0]]
        ELSE IF f[k - 1].err.kind # "nil" THEN f[k - 1]
        ELSE LET sk == f[k - 1].sink IN
          IF sk.calls + 1 = sk.failAt
          THEN [sink |-> [sk EXCEPT !.calls = @ + 1],
                err |-> [kind |-> "sink failure", at |-> sk.calls + 1]]
          ELSE [sink |-> [sk EXCEPT !.calls = @ + 1, !.written = Append(@, strs[k])],
                err |-> [kind |-> "nil", at |-> 0]]
  IN f[Len(strs)]

\* a variant of Emit: Error and EOF are not told apart from the rest
EmitAnyCategory(t, sink) == wr(sink, emitStrs(t))

\* Token.Emit: the sink afterwards and the error returned
Emit(t, sink) ==
  IF t.Type = "Error" THEN [sink |-> sink, err |-> [kind |-> "can not emit an error token", at |-> 0]]
  ELSE IF t.Type = "EOF" THEN [sink |-> sink, err |-> [kind |-> "can not emit an EOF", at |-> 0]]
  ELSE wr(sink, emitStrs(t))

\* a fresh sink whose failAt-th Write fails
NewSink(failAt) == [written |-> <<>>, calls |-> 0, failAt |-> failAt]

\* the text a sink holds
Flatten(strs) ==
  LET f[k \in 0..Len(strs)] == IF k = 0 THEN <<>> ELSE f[k - 1] \o strs[k]
  IN f[Len(strs)]

\* -------------------------------------------------------------- Scanner
\* strings.Replace(input, "\r\n", "\n", -1)
RECURSIVE ReplaceCRLF(_)
ReplaceCRLF(b) ==
  IF b = <<>> THEN <<>>
  ELSE IF Len(b) >= 2 /\ b[1] = CR /\ b[2] = LF THEN <<LF>> \o ReplaceCRLF(SubSeq(b, 3, Len(b)))
  ELSE <<b[1]>> \o ReplaceCRLF(Tail(b))

\* New: a Scanner value
New(in) == [input |-> ReplaceCRLF(in), pos |-> 0, row |-> 1, col |-> 1, err |-> NoToken]

UnclosedQuotationMark ==
  <<117, 110, 99, 108, 111, 115, 101, 100, 32, 113, 117, 111, 116, 97, 116,
    105, 111, 110, 32, 109, 97, 114, 107>>

UnclosedComment ==
  <<117, 110, 99, 108, 111, 115, 101, 100, 32, 99, 111, 109, 109, 101, 110, 116>>

\* The byte order mark U+FEFF in UTF-8
BOMText == <<239, 187, 191>>

\* updatePosition: the scanner after consuming text
updatePosition(s, text) ==
  LET width == RuneCount(text)
      lines == CountLF(text)
  IN [s EXCEPT !.row = @ + lines,
               !.col = IF lines = 0 THEN @ + width
                       ELSE RuneCount(SubSeq(text, LastLF(text), Len(text))),
               !.pos = @ + Len(text)]

\* a variant of emitToken: the token carries the normalized value
emitTokenNormalized(s, t, v) ==
  [s |-> updatePosition(s, v),
   tok |-> Token(t, normalizeValue(Token(t, v, s.row, s.col)), s.row, s.col)]

\* a call's outcome: the scanner afterwards and the token returned
emitToken(s, t, v) == [s |-> updatePosition(s, v), tok |-> Token(t, v, s.row, s.col)]

emitSimple(s, t, v) ==
  [s |-> [s EXCEPT !.col = @ + Len(v), !.pos = @ + Len(v)],
   tok |-> Token(t, v, s.row, s.col)]

\* a variant of emitPrefixOrChar: the prefix is looked for at the start of
\* the input, not at the position
emitPrefixFromStart(s, t, prefix) ==
  IF HasPrefix(s.input, prefix) THEN emitSimple(s, t, prefix)
  ELSE emitSimple(s, "Delim", <<prefix[1]>>)

emitPrefixOrChar(s, t, prefix) ==
  IF HasPrefix(SliceFrom(s.input, s.pos), prefix) THEN emitSimple(s, t, prefix)
  ELSE emitSimple(s, "Delim", <<prefix[1]>>)

\* the terminal token is stored in s.err and returned
terminal(s, t, v) == [s |-> [s EXCEPT !.err = Token(t, v, s.row, s.col)],
                      tok |-> Token(t, v, s.row, s.col)]

\* a variant of cached: every call after the end reports a fresh EOF token
cachedAsEOF(s) == [s |-> s, tok |-> Token("EOF", <<>>, s.row, s.col)]

\* Next, first statement: a stored terminal token is returned as it is
cached(s) == [s |-> s, tok |-> s.err]

\* the switch on the first byte was left without a return statement
NoReturn == [s |-> NoToken, tok |-> NoToken]

\* case '#': match is matchers[Hash].FindString(input)
caseHash(s, match) ==
  IF match # <<>> THEN emitToken(s, "Hash", match) ELSE emitSimple(s, "Delim", <<HASHCH>>)

\* case '@': match is matchers[AtKeyword].FindString(input)
caseAt(s, match) ==
  IF match # <<>> THEN emitSimple(s, "AtKeyword", match)
  ELSE emitSimple(s, "Delim", <<ATSIGN>>)

\* case '"', '\'': match is matchers[String].FindString(input)
caseQuote(s, match) ==
  IF match # <<>> THEN emitToken(s, "String", match)
  ELSE terminal(s, "Error", UnclosedQuotationMark)

\* case '/' followed by '*': match is matchers[Comment].FindString(input)
caseComment(s, match) ==
  IF match # <<>> THEN emitToken(s, "Comment", match)
  ELSE terminal(s, "Error", UnclosedComment)

\* Next, the switch on the first byte c of the remaining input
byFirstByte(s, input, c) ==
  CASE c \in {TAB, LF, FF, CR, SPACE} -> emitToken(s, "S", matchText(input, sP(input)))
    [] c = DOT ->
         IF Len(input) > 1 /\ ~IsDigit(input[2]) THEN emitSimple(s, "Delim", <<DOT>>)
         ELSE NoReturn
    [] c = HASHCH -> caseHash(s, matchText(input, hashP(input)))
    [] c = ATSIGN -> caseAt(s, matchText(input, atKeywordP(input)))
    [] c \in {58, 44, 59, PERCENT, 38, PLUS, EQUALS, GT, LPAREN, RPAREN,
              91, 93, 123, 125} -> emitSimple(s, "Delim", <<c>>)
    [] c \in {DQUOTE, SQUOTE} -> caseQuote(s, matchText(input, stringP(input)))
    [] c = SLASH ->
         IF Len(input) > 1 /\ input[2] = STAR
         THEN caseComment(s, matchText(input, commentP(input, 1)))
         ELSE emitSimple(s, "Delim", <<SLASH>>)
    [] c = TILDE -> emitPrefixOrChar(s, "Includes", <<TILDE, EQUALS>>)
    [] c = BAR -> emitPrefixOrChar(s, "DashMatch", <<BAR, EQUALS>>)
    [] c = CARET -> emitPrefixOrChar(s, "PrefixMatch", <<CARET, EQUALS>>)
    [] c = DOLLAR -> emitPrefixOrChar(s, "SuffixMatch", <<DOLLAR, EQUALS>>)
    [] c = STAR -> emitPrefixOrChar(s, "SubstringMatch", <<STAR, EQUALS>>)
    [] c = LT -> emitPrefixOrChar(s, "CDO", <<LT, BANG, DASH, DASH>>)
    [] OTHER -> NoReturn

\* a variant of catchAll: the position is left where it was
catchAllNoAdvance(s, d) ==
  [s |-> s, tok |-> Token("Delim", EncodeRune(d.r), s.row, s.col)]

\* the catch-all: r, width := utf8.DecodeRuneInString(input), given as d
catchAll(s, d) ==
  [s |-> [s EXCEPT !.col = @ + d.size, !.pos = @ + d.size],
   tok |-> Token("Delim", EncodeRune(d.r), s.row, s.col)]

\* Next, after the switch: the first regexp of matchOrder that matches, the
\* candidates being tried from index k on; then the catch-all
RECURSIVE byOrder(_, _, _, _)
byOrder(s, input, order, k) ==
  IF k > Len(order) THEN catchAll(s, DecodeRune(input, 1))
  ELSE IF order[k].match # <<>> THEN emitToken(s, order[k].type, order[k].match)
  ELSE byOrder(s, input, order, k + 1)

\* Next from the switch on
scanning(s, input, switched) ==
  IF switched # NoReturn THEN switched ELSE byOrder(s, input, matchOrder(input), 1)

\* a variant of Next: the byte order mark is tested at every position
NextBOMAnywhere(s) ==
  IF s.err # NoToken THEN cached(s)
  ELSE IF s.pos >= Len(s.input) THEN terminal(s, "EOF", <<>>)
  ELSE IF HasPrefix(SliceFrom(s.input, s.pos), BOMText) THEN emitSimple(s, "BOM", BOMText)
  ELSE scanning(s, SliceFrom(s.input, s.pos),
                byFirstByte(s, SliceFrom(s.input, s.pos), At(s.input, s.pos + 1)))

\* Scanner.Next
Next(s) ==
  IF s.err # NoToken THEN cached(s)
  ELSE IF s.pos >= Len(s.input) THEN terminal(s, "EOF", <<>>)
  ELSE IF s.pos = 0 /\ HasPrefix(s.input, BOMText) THEN emitSimple(s, "BOM", BOMText)
  ELSE scanning(s, SliceFrom(s.input, s.pos),
                byFirstByte(s, SliceFrom(s.input, s.pos), At(s.input, s.pos + 1)))

\* the rest of the tokens, given the outcome r of one call
RECURSIVE scanRest(_)
scanRest(r) ==
  IF r.tok.Type \in {"EOF", "Error"} THEN <<r.tok>> ELSE <<r.tok>> \o scanRest(Next(r.s))

\* the tokens a fresh Scanner returns for a text, up to and including the
\* first terminal one
ScanAll(text) == scanRest(Next(New(text)))

\* =================================================================== state
VARIABLES
  raw,                        \* the argument New was called with
  input, pos, row, col, err,  \* the fields of the Scanner
  calls,                      \* the calls of Next made so far
  tok,                        \* the token the last call of Next returned
  start,                      \* s.pos when that call was made
  consumed,                   \* the Values of the non-terminal tokens returned, joined
  echo,                       \* calls of Next made since a terminal token was stored
  utext, uIsString,           \* the arguments of a call of unbackslash
  uout, ustate,               \* its result, and whether it has run
  etok, esink,                \* the receiver and the io.Writer of a call of Emit
  eerr, estate                \* the error it returned, and whether it has run

scannerVars == <<raw, input, pos, row, col, err, calls, tok, start, consumed, echo>>
unbackslashVars == <<utext, uIsString, uout, ustate>>
emitVars == <<etok, esink, eerr, estate>>
vars == <<scannerVars, unbackslashVars, emitVars>>

\* ------------------------------------------------------------------ bounds
\* the number of fragments an input text is made of
MaxLen == 3
\* the number of calls of Next made after the terminal token
MaxEcho == 2
\* the number of bytes after the padded escape in an argument of unbackslash
UMaxLen == 4
\* the number of zero digits put in front of it
MaxPad == 5
\* the latest Write call of a sink that may fail
MaxFailAt == 3

\* the sequences of at most n elements of S
SeqsUpTo(S, n) == UNION {[1..k -> S] : k \in 0..n}

\* ------------------------------------------------------------ scanner runs
\* Input texts are made of at most MaxLen fragments of one alphabet.
AlphaText == {<<DQUOTE>>, <<SQUOTE>>, <<BACKSLASH>>, <<97>>, <<LF>>, <<SLASH>>, <<STAR>>}

\* U+FEFF, @, U+00E9, LF, a, ", U+FFFE
AlphaPos == {BOMText, <<ATSIGN>>, <<195, 169>>, <<LF>>, <<97>>, <<DQUOTE>>, <<239, 191, 190>>}

\* te, st, \, 1, url(, ), '
AlphaValue ==
  {<<116, 101>>, <<115, 116>>, <<BACKSLASH>>, <<49>>, <<117, 114, 108, LPAREN>>,
   <<RPAREN>>, <<SQUOTE>>}

\* color, :, red, space, 42, px, %
AlphaDecl ==
  {<<99, 111, 108, 111, 114>>, <<58>>, <<114, 101, 100>>, <<SPACE>>, <<52, 50>>,
   <<112, 120>>, <<PERCENT>>}

\* CR, LF, a, space, "
AlphaNewline == {<<CR>>, <<LF>>, <<97>>, <<SPACE>>, <<DQUOTE>>}

\* red, -, >, -->, 42, a
AlphaCDC == {<<114, 101, 100>>, <<DASH>>, <<GT>>, <<DASH, DASH, GT>>, <<52, 50>>, <<97>>}

\* 4, .2, px, %, (, url(, ), U+0042
AlphaOrder ==
  {<<52>>, <<DOT, 50>>, <<112, 120>>, <<PERCENT>>, <<LPAREN>>,
   <<117, 114, 108, LPAREN>>, <<RPAREN>>, <<85, PLUS, 48, 48, 52, 50>>}

\* ~, |, ^, $, *, =, <, !--, !-
AlphaOps ==
  {<<TILDE>>, <<BAR>>, <<CARET>>, <<DOLLAR>>, <<STAR>>, <<EQUALS>>, <<LT>>,
   <<BANG, DASH, DASH>>, <<BANG, DASH>>}

Alphabets ==
  {AlphaText, AlphaPos, AlphaValue, AlphaDecl, AlphaNewline, AlphaCDC, AlphaOrder, AlphaOps}

Inputs == UNION {{Flatten(fs) : fs \in SeqsUpTo(A, MaxLen)} : A \in Alphabets}

ScannerIdle ==
  /\ raw = <<>> /\ input = <<>> /\ pos = 0 /\ row = 1 /\ col = 1 /\ err = NoToken
  /\ calls = 0 /\ tok = NoToken /\ start = 0 /\ consumed = <<>> /\ echo = 0

NilError == [kind |-> "nil", at |-> 0]

UnbackslashIdle == utext = <<>> /\ uIsString = FALSE /\ uout = <<>> /\ ustate = "idle"

EmitIdle == etok = NoToken /\ esink = NewSink(0) /\ eerr = NilError /\ estate = "idle"

\* the Scanner as New leaves it
Init ==
  /\ raw \in Inputs
  /\ \E s \in {New(raw)} :
       input = s.input /\ pos = s.pos /\ row = s.row /\ col = s.col /\ err = s.err
  /\ calls = 0 /\ tok = NoToken /\ start = 0 /\ consumed = <<>> /\ echo = 0
  /\ UnbackslashIdle
  /\ EmitIdle

TheScanner == [input |-> input, pos |-> pos, row |-> row, col |-> col, err |-> err]

\* one call of Next
CallNext ==
  /\ err # NoToken => echo < MaxEcho
  /\ \E r \in {Next(TheScanner)} :
        /\ input' = r.s.input
        /\ pos' = r.s.pos
        /\ row' = r.s.row
        /\ col' = r.s.col
        /\ err' = r.s.err
        /\ tok' = r.tok
        /\ consumed' = IF r.tok.Type \in {"EOF", "Error"} THEN consumed
                       ELSE consumed \o r.tok.Value
  /\ start' = pos
  /\ calls' = calls + 1
  /\ echo' = IF err # NoToken THEN echo + 1 ELSE echo
  /\ UNCHANGED raw
  /\ UNCHANGED <<unbackslashVars, emitVars>>

Spec == Init /\ [][CallNext]_vars

\* -------------------------------------------------------- unbackslash runs
\* 26, B, G, space, \
UAlphaHex == {<<50, 54>>, <<66>>, <<71>>, <<SPACE>>, <<BACKSLASH>>}

\* \, CR, LF, a
UAlphaNewline == {<<BACKSLASH>>, <<CR>>, <<LF>>, <<97>>}

\* D, 80, 0, F, 1
UAlphaRange == {<<68>>, <<56, 48>>, <<48>>, <<70>>, <<49>>}

UTails ==
  UNION {{Flatten(fs) : fs \in SeqsUpTo(A, UMaxLen)} :
           A \in {UAlphaHex, UAlphaNewline, UAlphaRange}}

\* a backslash and k zeros
Padded(k) == <<BACKSLASH>> \o [j \in 1..k |-> 48]

UInputs == UTails \cup {Padded(k) \o t : k \in 0..MaxPad, t \in UTails}

InitUnbackslash ==
  /\ utext \in UInputs /\ uIsString \in BOOLEAN /\ uout = <<>> /\ ustate = "ready"
  /\ ScannerIdle
  /\ EmitIdle

CallUnbackslash ==
  /\ ustate = "ready"
  /\ uout' = unbackslash(utext, uIsString)
  /\ ustate' = "done"
  /\ UNCHANGED <<utext, uIsString, scannerVars, emitVars>>

SpecUnbackslash == InitUnbackslash /\ [][CallUnbackslash]_vars

\* --------------------------------------------------------------- Emit runs
\* "", a, a1, a"b, a'b, LF, tab ! space #
EmitValues ==
  {<<>>, <<97>>, <<97, 49>>, <<97, DQUOTE, 98>>, <<97, SQUOTE, 98>>, <<LF>>,
   <<TAB, BANG, SPACE, HASHCH>>}

InitEmit ==
  /\ etok \in {Token(t, v, 1, 1) : t \in Types, v \in EmitValues}
  /\ esink \in {NewSink(k) : k \in 0..MaxFailAt}
  /\ eerr = NilError /\ estate = "ready"
  /\ ScannerIdle
  /\ UnbackslashIdle

CallEmit ==
  /\ estate = "ready"
  /\ LET r == Emit(etok, esink) IN esink' = r.sink /\ eerr' = r.err
  /\ estate' = "done"
  /\ UNCHANGED <<etok, scannerVars, unbackslashVars>>

SpecEmit == InitEmit /\ [][CallEmit]_vars

\* =================================================================== claims
Terminal(t) == t.Type \in {"EOF", "Error"}

Returned == tok # NoToken

NoBackslash(b) == \A k \in 1..Len(b) : b[k] # BACKSLASH

\* the line of the byte at offset off of a text: 1 plus the line feeds before it
LineAt(text, off) == 1 + CountLF(SubSeq(text, 1, off))

\* its column: 1 plus the runes between the last line feed before it (or the
\* start of the text) and it
ColumnAt(text, off) ==
  1 + RuneCount(SubSeq(text, LastLF(SubSeq(text, 1, off)) + 1, off))

\* the text the last call of Next consumed
Lexeme == SubSeq(input, start + 1, pos)

\* C1: once Next has returned an EOF or Error token, every later call returns
\* that same token and leaves position, row and column unchanged.
C1_TerminalIsAbsorbing ==
  [][Terminal(tok) => (tok' = tok /\ pos' = pos /\ row' = row /\ col' = col)]_vars

\* C1: an Error token was returned after other tokens, and Next was called
\* twice more
C1_Witness == tok.Type = "Error" /\ pos > 0 /\ echo >= 2

\* the remaining input at an offset begins with a quote that opens no String,
\* or with /* that opens no Comment
UnclosedQuoteAt(text, off) ==
  /\ At(text, off + 1) \in {DQUOTE, SQUOTE}
  /\ stringP(SliceFrom(text, off)) = <<>>

UnclosedCommentAt(text, off) ==
  /\ HasPrefix(SliceFrom(text, off), <<SLASH, STAR>>)
  /\ commentP(SliceFrom(text, off), 1) = <<>>

\* C2, without the coordinates: Next returns an Error token exactly when the
\* remaining input begins with an unclosed quote or an unclosed comment; the
\* token has the matching message, nothing is consumed, and the tokens
\* returned before it make up the input before it.
C2_ErrorIffUnclosed ==
  Returned =>
    /\ tok.Type = "Error" <=>
         (UnclosedQuoteAt(input, start) \/ UnclosedCommentAt(input, start))
    /\ tok.Type = "Error" =>
         /\ tok.Value = (IF UnclosedQuoteAt(input, start) THEN UnclosedQuotationMark
                         ELSE UnclosedComment)
         /\ pos = start
         /\ consumed = SubSeq(input, 1, start)

\* C2: Next returns an Error token exactly when the remaining input begins
\* with an unclosed quote ("unclosed quotation mark") or an unclosed comment
\* ("unclosed comment"); the token carries the line and column of the opening
\* character, nothing is consumed, and the tokens before it were returned.
C2_ErrorToken ==
  /\ C2_ErrorIffUnclosed
  /\ (Returned /\ tok.Type = "Error") =>
       /\ tok.Line = LineAt(input, start)
       /\ tok.Column = ColumnAt(input, start)

\* the text Emit writes for a token to a sink that never fails
Emitted(t) == Flatten(Emit(t, NewSink(0)).sink.written)

\* scanning the text emitted for normalize(t) gives one token of t's
\* category, then EOF, and that token normalizes to the same value
RoundTrips(t) ==
  \E again \in {ScanAll(Emitted(normalize(t)))} :
    /\ Len(again) = 2
    /\ again[2].Type = "EOF"
    /\ again[1].Type = t.Type
    /\ ~normalizePanics(again[1])
    /\ normalizeValue(again[1]) = normalizeValue(t)

\* C3: for every token scanned that is neither Error nor EOF, the text Emit
\* writes for the normalized token scans to exactly one token of the same
\* category with an equal normalized value.
C3_RoundTrip ==
  (Returned /\ ~Terminal(tok) /\ ~normalizePanics(tok)) => RoundTrips(tok)

\* C4: every token returned has as Line 1 plus the line feeds before its first
\* character, and as Column 1 plus the runes between the last line feed before
\* it (or the start of the input) and its first character.
C4_LineAndColumn ==
  Returned => /\ tok.Line = LineAt(input, start)
              /\ tok.Column = ColumnAt(input, start)

\* C5: the Value of a token returned by Next is the decoded value of its
\* lexeme, not the lexeme.
C5_DecodedValue ==
  (Returned /\ ~Terminal(tok) /\ ~normalizePanics(tok)) =>
    tok.Value = normalizeValue([tok EXCEPT !.Value = Lexeme])

C7_HexRun ==
  ustate = "done" =>
    \A k \in 1..Len(utext), n \in 1..6 :
      (/\ utext[k] = BACKSLASH
       /\ k + n <= Len(utext)
       /\ NoBackslash(SubSeq(utext, 1, k - 1))
       /\ \A j \in 1..n : IsHexClass(utext[k + j])
       /\ NoBackslash(SubSeq(utext, k + n + 1, Len(utext)))
       /\ (n = 6 \/ k + n = Len(utext) \/ ~IsHexClass(utext[k + n + 1])))
      => uout = SubSeq(utext, 1, k - 1)
                \o EncodeRune(decodeHex(SubSeq(utext, k + 1, k + n)))
                \o SubSeq(utext,
                          IF n < 6 /\ k + n < Len(utext) /\ IsWc(utext[k + n + 1])
                          THEN k + n + 2 ELSE k + n + 1,
                          Len(utext))

\* C7: \000026 B has been decoded to "& B"
C7_Witness ==
  /\ ustate = "done"
  /\ utext = <<BACKSLASH, 48, 48, 48, 48, 50, 54, SPACE, 66>>
  /\ uout = <<38, SPACE, 66>>

\* C8: in string mode a backslash followed by LF, by CR LF, or by a CR that no
\* LF follows (the CR may be the last byte) adds nothing to the output; with
\* string mode off the newline bytes stay.
C8_EscapedNewline ==
  ustate = "done" =>
    \A k \in 1..Len(utext), n \in 1..2 :
      (/\ utext[k] = BACKSLASH
       /\ k + n <= Len(utext)
       /\ NoBackslash(SubSeq(utext, 1, k - 1))
       /\ \/ n = 1 /\ utext[k + 1] = LF
          \/ n = 2 /\ utext[k + 1] = CR /\ utext[k + 2] = LF
          \/ n = 1 /\ utext[k + 1] = CR /\ At(utext, k + 2) # LF
       /\ NoBackslash(SubSeq(utext, k + n + 1, Len(utext))))
      => uout = SubSeq(utext, 1, k - 1)
                \o (IF uIsString THEN <<>> ELSE SubSeq(utext, k + 1, k + n))
                \o SubSeq(utext, k + n + 1, Len(utext))

\* a Write of the sink failed during the call
WriteFailed == esink.failAt >= 1 /\ esink.calls >= esink.failAt

\* C9: Emit on an Error or EOF token fails and writes nothing; on any other
\* token it fails only if a Write of the sink failed.
C9_Unemittable ==
  estate = "done" =>
    /\ etok.Type \in {"Error", "EOF"} =>
         eerr.kind # "nil" /\ esink.calls = 0 /\ esink.written = <<>>
    /\ etok.Type \notin {"Error", "EOF"} => (eerr.kind # "nil" => WriteFailed)

\* C9: Emit was called on an EOF token with a sink whose first Write would fail
C9_Witness ==
  estate = "done" /\ etok.Type = "EOF" /\ esink.failAt = 1 /\ eerr.kind # "nil"

\* C10: when a Write of the sink fails, Emit returns that failure, makes no
\* further Write, and the sink holds the pieces before the failing one.
C10_SinkFailure ==
  (estate = "done" /\ WriteFailed) =>
    /\ eerr = [kind |-> "sink failure", at |-> esink.failAt]
    /\ esink.calls = esink.failAt
    /\ esink.written = SubSeq(emitStrs(etok), 1, esink.failAt - 1)

\* C10: a URI token was emitted to a sink whose second Write failed: the
\* sink holds url(' and nothing else
C10_Witness ==
  /\ estate = "done" /\ etok.Type = "URI" /\ esink.failAt = 2
  /\ eerr.kind = "sink failure"
  /\ esink.written = << <<117, 114, 108, LPAREN, SQUOTE>> >>

\* b holds a CR immediately followed by a LF
HasCRLF(b) == \E k \in 1..(Len(b) - 1) : b[k] = CR /\ b[k + 1] = LF

\* C11: the tokens returned for a text are, one by one, those returned for the
\* text with each CR LF replaced by LF, and no token Value holds a CR
\* immediately followed by LF.
C11_CRLFReplaced ==
  (Returned /\ echo = 0) =>
    /\ \E seq \in {ScanAll(ReplaceCRLF(raw))} : calls <= Len(seq) /\ tok = seq[calls]
    /\ ~HasCRLF(tok.Value)

\* C12: a BOM token is returned only by the first call of Next, and only when
\* the input begins with U+FEFF; a U+FEFF at a later position is never
\* returned as a BOM token.
C12_BOMOnlyFirst ==
  tok.Type = "BOM" =>
    /\ calls = 1 /\ start = 0
    /\ HasPrefix(input, BOMText)
    /\ tok.Value = BOMText /\ pos = Len(BOMText)

\* C12: the input begins with two U+FEFF; the second call of Next met the
\* second one and returned it as something else
C12_Witness ==
  /\ HasPrefix(input, BOMText \o BOMText)
  /\ calls = 2 /\ start = Len(BOMText)
  /\ tok.Type \notin {"BOM", "nil", "EOF", "Error"}

\* the value the URI rule describes for a lexeme url(...): the interior
\* trimmed; nothing when that is empty; else without one pair of matching
\* quotes around it, if there is one; decoded
UriValue(v) ==
  LET tr == TrimSpace(SubSeq(v, 5, Len(v) - 1))
      n == Len(tr)
  IN IF n = 0 THEN <<>>
     ELSE IF n >= 2 /\ tr[1] = tr[n] /\ tr[1] \in {SQUOTE, DQUOTE}
       THEN unbackslash(SubSeq(tr, 2, n - 1), FALSE)
     ELSE unbackslash(tr, FALSE)

\* C13: normalize on a URI token that Next returned completes without fault
\* and leaves the value the URI rule describes.
C13_UriNormalize ==
  tok.Type = "URI" =>
    /\ ~normalizePanics(tok)
    /\ normalizeValue(tok) = UriValue(tok.Value)

\* a text of ASCII characters with a backslash put before every q and before
\* every character below '#' other than tab and '!'
Escaped(v, q) ==
  LET f[k \in 0..Len(v)] ==
        IF k = 0 THEN <<>>
        ELSE f[k - 1] \o (IF v[k] = q \/ (v[k] < HASHCH /\ v[k] \notin {TAB, BANG})
                          THEN <<BACKSLASH, v[k]>> ELSE <<v[k]>>)
  IN f[Len(v)]

\* the pieces written for a quoted value
Quoted(open, v, q, close) == <<open, Escaped(v, q), close>>

\* C14: Emit renders a String token as the value between double quotes and a
\* URI token as the value between url(' and '), with a backslash before every
\* delimiter quote of the value and before every character below '#' other
\* than tab and '!', and everything else unchanged.
C14_QuoteEscaped ==
  (estate = "done" /\ eerr.kind = "nil") =>
    /\ etok.Type = "String" =>
         esink.written = Quoted(<<DQUOTE>>, etok.Value, DQUOTE, <<DQUOTE>>)
    /\ etok.Type = "URI" =>
         esink.written = Quoted(<<117, 114, 108, LPAREN, SQUOTE>>, etok.Value, SQUOTE,
                                <<SQUOTE, RPAREN>>)

\* the input from where the last call of Next began
Remaining == SliceFrom(input, start)

\* red-->
RedArrow == <<114, 101, 100, DASH, DASH, GT>>

\* C15: a CDC token is --> met where the identifier production does not
\* match; an Ident token takes the dashes that follow it; and red--> is
\* scanned as Ident "red--", Delim ">" and the end, without a CDC token.
C15_CDCAfterIdent ==
  /\ tok.Type = "CDC" =>
       /\ tok.Value = <<DASH, DASH, GT>>
       /\ HasPrefix(Remaining, <<DASH, DASH, GT>>)
       /\ identP(Remaining) = <<>>
  /\ tok.Type = "Ident" => At(input, pos + 1) # DASH
  /\ input = RedArrow =>
       /\ calls = 1 => tok = Token("Ident", <<114, 101, 100, DASH, DASH>>, 1, 1)
       /\ calls = 2 => tok = Token("Delim", <<GT>>, 1, 6)
       /\ calls >= 3 => tok = Token("EOF", <<>>, 1, 7)

\* C15: red--> has been scanned to its end
C15_Witness == input = RedArrow /\ calls = 3 /\ tok.Type = "EOF"

\* the Scanner as it was when the last call of Next began
ScannerAtStart ==
  [input |-> input, pos |-> start, row |-> tok.Line, col |-> tok.Column, err |-> NoToken]

\* the last call of Next went through the switch on the first byte without
\* returning
NoFastPath ==
  /\ Returned /\ echo = 0 /\ start < Len(input)
  /\ ~(start = 0 /\ HasPrefix(input, BOMText))
  /\ byFirstByte(ScannerAtStart, Remaining, Remaining[1]) = NoReturn

\* the input after the token just returned
Rest == SliceFrom(input, pos)

\* C16: past the fast paths Next returns the first production that matches,
\* in the order URI, Function, UnicodeRange, Ident, Dimension, Percentage,
\* Number, CDC, and no later production matches a longer prefix; so a Number
\* is not followed by an identifier or %, an Ident is not followed by (, and
\* a Function is not the start of a well-formed url(...).
C16_FirstIsLongest ==
  NoFastPath =>
    \E order \in {matchOrder(Remaining)} :
      /\ [k \in 1..Len(order) |-> order[k].type] =
           <<"URI", "Function", "UnicodeRange", "Ident", "Dimension", "Percentage",
             "Number", "CDC">>
      /\ \A k \in 1..Len(order) :
           (order[k].match # <<>> /\ \A j \in 1..(k - 1) : order[j].match = <<>>) =>
             /\ tok.Type = order[k].type /\ tok.Value = order[k].match
             /\ \A j \in (k + 1)..Len(order) : Len(order[j].match) <= Len(tok.Value)
      /\ tok.Type = "Number" => At(Rest, 1) # PERCENT /\ identP(Rest) = <<>>
      /\ tok.Type = "Ident" => At(Rest, 1) # LPAREN
      /\ tok.Type = "Function" => uriP(Remaining, 1) = <<>>

\* C16: 4px( is being scanned: the Dimension 4px has been returned, where
\* Number, later in the order, matches 4
C16_Witness ==
  /\ NoFastPath /\ tok.Type = "Dimension"
  /\ tok.Value = <<52, 112, 120>> /\ At(Rest, 1) = LPAREN

\* the value of a hex digit character
DigitOf(c) ==
  CHOOSE d \in 0..15 : c = (IF d < 10 THEN 48 + d ELSE 55 + d) \/ (d >= 10 /\ c = 87 + d)

\* the base-16 value of a run of digits, most significant first
HexValue(ds) ==
  LET pow[k \in 0..Len(ds)] == IF k = 0 THEN 1 ELSE 16 * pow[k - 1]
      sum[k \in 0..Len(ds)] ==
        IF k = 0 THEN 0 ELSE sum[k - 1] + DigitOf(ds[k]) * pow[Len(ds) - k]
  IN sum[Len(ds)]

\* the text decoded begins with a backslash and a hex digit
BeginsWithHexEscape == ustate = "done" /\ At(utext, 1) = BACKSLASH /\ IsHexClass(At(utext, 2))

\* the digits of that escape: the hex digits that follow the backslash, at
\* most six
EscapeDigits ==
  LET n == CHOOSE m \in 1..6 :
             /\ \A j \in 1..m : IsHexClass(At(utext, 1 + j))
             /\ (m = 6 \/ ~IsHexClass(At(utext, m + 2)))
  IN SubSeq(utext, 2, n + 1)

\* a code point that is a character: not a surrogate, not above U+10FFFF
IsScalar(v) == v >= 0 /\ v <= MaxRune /\ ~(v >= 55296 /\ v <= 57343)

\* C17, as claimed: the character written for a hex escape is the one whose
\* code point is the base-16 value of its 1 to 6 digits, for every run,
\* surrogates and values above 10FFFF included.
C17_CodePoint ==
  BeginsWithHexEscape => DecodeRune(uout, 1).r = HexValue(EscapeDigits)

\* C17, amended: the character written for a hex escape is the one whose code
\* point is the base-16 value of its 1 to 6 digits when that value is a
\* Unicode scalar value (zero included), and U+FFFD when it is a surrogate or
\* above 10FFFF.
C17_ScalarCodePoint ==
  BeginsWithHexEscape =>
    \E v \in {HexValue(EscapeDigits)} :
      /\ IsScalar(v) => DecodeRune(uout, 1).r = v
      /\ ~IsScalar(v) => HasPrefix(uout, <<239, 191, 189>>)

\* C17: \D800 has been decoded, to U+FFFD
C17_Witness ==
  /\ ustate = "done" /\ utext = <<BACKSLASH, 68, 56, 48, 48>>
  /\ uout = <<239, 191, 189>>

\* the match operators: first character and category
MatchOperators ==
  {[c |-> TILDE, type |-> "Includes"], [c |-> BAR, type |-> "DashMatch"],
   [c |-> CARET, type |-> "PrefixMatch"], [c |-> DOLLAR, type |-> "SuffixMatch"],
   [c |-> STAR, type |-> "SubstringMatch"]}

\* <!--
CDOText == <<LT, BANG, DASH, DASH>>

\* C18: where the remaining input begins with one of ~ | ^ $ *, Next returns
\* the two-character match operator exactly when = follows, and else a Delim
\* of that one character; where it begins with <, CDO exactly when !--
\* follows, and else Delim "<"; the characters of the token, and no others,
\* are consumed.
C18_PrefixOrChar ==
  Returned =>
    /\ \A op \in MatchOperators :
         At(Remaining, 1) = op.c =>
           /\ tok.Type = op.type <=> At(Remaining, 2) = EQUALS
           /\ tok.Type = op.type => tok.Value = <<op.c, EQUALS>>
           /\ tok.Type # op.type => tok.Type = "Delim" /\ tok.Value = <<op.c>>
           /\ pos = start + Len(tok.Value)
    /\ At(Remaining, 1) = LT =>
         /\ tok.Type = "CDO" <=> HasPrefix(Remaining, CDOText)
         /\ tok.Type = "CDO" => tok.Value = CDOText
         /\ tok.Type # "CDO" => tok.Type = "Delim" /\ tok.Value = <<LT>>
         /\ pos = start + Len(tok.Value)

\* C18: after a first token, <!- was met, without the last dash of <!--, and
\* Delim "<" was returned
C18_Witness ==
  /\ start > 0
  /\ HasPrefix(Remaining, <<LT, BANG, DASH>>) /\ ~HasPrefix(Remaining, CDOText)
  /\ tok.Type = "Delim" /\ tok.Value = <<LT>>

\* C19: a call of Next made while no terminal token is stored either stores
\* and returns a terminal token, or returns another token and moves the
\* position forward by at least one byte, not past the end of the input; so
\* the terminal token comes within Len(input) + 1 calls, and EOF is returned
\* only with the position at the end of the input.
C19_Progress ==
  /\ [][err = NoToken =>
          \/ Terminal(tok') /\ err' = tok' /\ pos' = pos
          \/ /\ ~Terminal(tok') /\ err' = NoToken
             /\ pos' >= pos + 1 /\ pos' <= Len(input)]_vars
  /\ [](err = NoToken => calls <= Len(input))
  /\ [](echo = 0 => calls <= Len(input) + 1)
  /\ [](tok.Type = "EOF" => pos = Len(input))

\* C19: an input of three bytes or more was scanned one byte per call, and
\* the call after the last byte returned EOF
C19_Witness ==
  /\ Len(input) >= 3 /\ calls = Len(input) + 1 /\ echo = 0
  /\ tok.Type = "EOF"

====
